---- MODULE Spec2Model ----
(***************************************************************************)
(* State-machine model of Conv::DatasetInputLayer (CN24),                  *)
(* src/src/net/DatasetInputLayer.cpp: construction, CreateOutputs,         *)
(* Connect, FeedForward and SetTestingMode, together with the Dataset it   *)
(* reads from and the loss-weight tensor it writes to.                     *)
(*                                                                         *)
(* Reals are scaled: a draw of dist_ in [0,1) is an integer in             *)
(* 0..GenModulus-1 (draw/GenModulus) and loss_sampling_p_ is an integer in *)
(* 0..GenModulus (p*GenModulus).  Sample indices are 0-based as in the     *)
(* code; TLA+ sequences are 1-based, so perm_[i] of the code is            *)
(* perm_[i + 1] here.                                                      *)
(***************************************************************************)
EXTENDS Integers, Sequences, FiniteSets

\* ------------------------------------------------------------------ bounds
MaxTraining == 3      \* Dataset::GetTrainingSamples() in 0..MaxTraining
MaxTesting == 2       \* Dataset::GetTestingSamples() in 0..MaxTesting
MaxBatch == 2         \* batch_size in 1..MaxBatch
MaxTrainingLog == 4   \* training fetches followed since construction
MaxTestingLog == 3    \* testing fetches followed since testing mode was entered
MaxGarbage == 1       \* values an out-of-bounds read of perm_ may yield: 0..MaxGarbage

\* ------------------------------------------------------- program constants
block_size == 12

\* The generator: std::mt19937 is abstracted to a full-period linear
\* congruential generator over 0..GenModulus-1.
GenModulus == 8

GenNext(g) == (5 * g + 3) % GenModulus

Seeded(seed) == seed % GenModulus

\* loss_sampling_p in {0.0, 0.5, 1.0}, scaled by GenModulus
LossSamplingPs == {0, GenModulus \div 2, GenModulus}

\* Seeds the layer is constructed with (zero is accepted, with a warning)
Seeds == {0, 3}

\* Dataset geometries <<width, height>>: a single position in one block, and
\* two blocks along x with the second clipped
Geometries == {<<1, 1>>, <<block_size + 1, 2>>}

NullPtr == 0

\* ---------------------------------------------------------------- helpers
Identity(n) == [i \in 1..n |-> i - 1]

SwapLossy(s, i, j) == [s EXCEPT ![i] = s[j]]

\* std::iter_swap inside std::shuffle
Swap(s, i, j) == [s EXCEPT ![i] = s[j], ![j] = s[i]]

RECURSIVE ShuffleFrom(_, _, _)
ShuffleFrom(perm, gen, i) ==
  IF i > Len(perm)
    THEN [perm_ |-> perm, generator_ |-> gen]
    ELSE LET g == GenNext(gen)
         IN ShuffleFrom(Swap(perm, i, 1 + (g % i)), g, i + 1)

\* DatasetInputLayer::RedoPermutation: std::shuffle(perm_.begin(), perm_.end(), generator_)
RedoPermutation(perm, gen) == ShuffleFrom(perm, gen, 2)

IsPermutation(perm, n) ==
  /\ Len(perm) = n
  /\ \A v \in 0..(n - 1) : Cardinality({i \in 1..Len(perm) : perm[i] = v}) = 1

Min(a, b) == IF a < b THEN a ELSE b

\* ------------------------------------------------------------------ state
VARIABLES
  dataset,                  \* the Dataset: [training, testing, width, height, input_maps, label_maps]
  build_opencl,             \* whether the build defines BUILD_OPENCL
  batch_size_, loss_sampling_p_, seed_,
  elements_training_, elements_testing_, input_maps_, label_maps_,
  perm_, current_element_, current_element_testing_, testing_, generator_,
  data_output_, label_output_, helper_output_, localized_error_output_,
  outputs,                  \* the vector CreateOutputs appends to: a sequence of tensor shapes
  weights,                  \* data of the loss-weight tensor: <<sample, x, y>> -> value
  resident,                 \* residency of the loss-weight tensor: "cpu" or "gpu"
  stage,                    \* "Created", "OutputsDeclared", "Active", "Inert", "Halted";
                            \* "Undefined" once a call has read perm_ out of bounds: the
                            \* program's behaviour is undefined from there on and the
                            \* model follows it no further
  last_call,                \* the last operation: [op, arg, ret, oob, before]; before is
                            \* what SetTestingMode found when it was called
  fetch_log,                \* the Dataset fetches the last operation made, in order
  training_log,             \* every index passed to GetTrainingSample since construction
  testing_seen,             \* testing-mode fetches since testing mode was last entered
  shuffles,                 \* invocations of RedoPermutation after construction
  twin                      \* a second instance built from the same arguments, driven by the same calls

configVars == <<dataset, build_opencl, batch_size_, loss_sampling_p_, seed_,
                elements_training_, elements_testing_, input_maps_, label_maps_>>
cursorVars == <<perm_, current_element_, current_element_testing_, testing_, generator_>>
bindVars == <<data_output_, label_output_, helper_output_, localized_error_output_>>
tensorVars == <<weights, resident>>
historyVars == <<fetch_log, training_log, testing_seen, shuffles>>
vars == <<configVars, cursorVars, bindVars, tensorVars, historyVars,
          outputs, stage, last_call, twin>>

Datasets ==
  {[training |-> tr, testing |-> te, width |-> g[1], height |-> g[2],
    input_maps |-> 3, label_maps |-> 1] :
     tr \in 0..MaxTraining, te \in 0..MaxTesting, g \in Geometries}

\* What Dataset::GetTrainingSample / GetTestingSample writes at (x, y) of the
\* loss-weight map for sample `index`: some value, zero at some positions
DatasetWeight(testing, index, x, y) ==
  IF testing THEN 1 + ((index + x) % 2) ELSE (index + x + y) % 3

\* In-class initialisers of DatasetInputLayer.h
InitialTesting == FALSE
InitialElement == 0

\* DatasetInputLayer::DatasetInputLayer
InitOf(datasets, builds, ps) ==
  /\ dataset \in datasets
  /\ build_opencl \in builds
  /\ batch_size_ \in 1..MaxBatch
  /\ loss_sampling_p_ \in ps
  /\ seed_ \in Seeds
  /\ label_maps_ = dataset.label_maps
  /\ input_maps_ = dataset.input_maps
  /\ elements_training_ = dataset.training
  /\ elements_testing_ = dataset.testing
  /\ LET shuffled == RedoPermutation(Identity(dataset.training), Seeded(seed_))
     IN /\ perm_ = shuffled.perm_
        /\ generator_ = shuffled.generator_
        /\ twin = [perm_ |-> shuffled.perm_, generator_ |-> shuffled.generator_,
                   current_element_ |-> InitialElement,
                   current_element_testing_ |-> InitialElement,
                   testing_ |-> InitialTesting, training_log |-> <<>>,
                   halted |-> FALSE]
  /\ current_element_ = InitialElement
  /\ current_element_testing_ = InitialElement
  /\ testing_ = InitialTesting
  /\ data_output_ = NullPtr
  /\ label_output_ = NullPtr
  /\ helper_output_ = NullPtr
  /\ localized_error_output_ = NullPtr
  /\ outputs = <<>>
  /\ weights = <<>>
  /\ resident = "cpu"
  /\ stage = "Created"
  /\ last_call = [op |-> "DatasetInputLayer", arg |-> seed_, ret |-> "void",
                  oob |-> {}, before |-> <<>>]
  /\ fetch_log = <<>>
  /\ training_log = <<>>
  /\ testing_seen = 0
  /\ shuffles = 0

\* ------------------------------------------------------------ FeedForward
\* The loss-weight tensor the layer is bound to
ErrorTensor == outputs[localized_error_output_]

\* Values of x (or y) the loops of lines 162-163 visit
BlockOrigins(extent) == {o \in 0..(extent - 1) : o % block_size = 0}

\* The blocks in the order the loops visit them: y outer, x inner
BlockSeq(width, height) ==
  LET nbx == Cardinality(BlockOrigins(width))
      nby == Cardinality(BlockOrigins(height))
  IN [k \in 1..(nbx * nby) |->
        <<((k - 1) % nbx) * block_size, ((k - 1) \div nbx) * block_size>>]

BlockCellsFirstRow(x, y, width, height) ==
  (x..(Min(x + block_size, width) - 1)) \X {y}

\* Positions (ix, iy) the inner loops of lines 165-166 write for the block at (x, y)
BlockCells(x, y, width, height) ==
  (x..(Min(x + block_size, width) - 1)) \X (y..(Min(y + block_size, height) - 1))

DropsBlockReversed(draw, p) == draw < p

\* dist_(generator_) > loss_sampling_p_
DropsBlock(draw, p) == draw > p

ClearNothing(w, sample) == w

\* Tensor::Clear(0.0, sample)
Clear(w, sample) == [c \in DOMAIN w |-> IF c[1] = sample THEN 0 ELSE w[c]]

\* The Dataset's fetch fills slot `sample` of the loss-weight tensor
FetchInto(w, sample, testing, index) ==
  [c \in DOMAIN w |->
     IF c[1] = sample THEN DatasetWeight(testing, index, c[2], c[3]) ELSE w[c]]

\* Lines 161-172: one draw per block, the block zeroed when the draw exceeds p
RECURSIVE SampleBlocks(_, _, _, _)
SampleBlocks(acc, sample, blocks, k) ==
  IF k > Len(blocks)
    THEN acc
    ELSE LET draw == GenNext(acc.generator_)
             cells == BlockCells(blocks[k][1], blocks[k][2],
                                 ErrorTensor.width, ErrorTensor.height)
             w == IF DropsBlock(draw, loss_sampling_p_)
                    THEN [c \in DOMAIN acc.weights |->
                            IF c[1] = sample /\ <<c[2], c[3]>> \in cells
                              THEN 0 ELSE acc.weights[c]]
                    ELSE acc.weights
         IN SampleBlocks([weights |-> w, generator_ |-> draw,
                          draws |-> Append(acc.draws, draw)],
                         sample, blocks, k + 1)

\* Line 125: the testing set is exhausted
TestingExhausted(advanced, elements_testing) == advanced >= elements_testing

PermExhaustedLate(advanced, size) == advanced > size

PermExhaustedEarly(advanced, size) == advanced + 1 >= size

\* Line 139: the permutation is used up
PermExhausted(advanced, size) == advanced >= size

PerformsLossSamplingUnlessPadding(testing, force_no_weight) == ~force_no_weight

\* Line 156: loss sampling runs in training mode, for samples that are not padding
PerformsLossSampling(testing, force_no_weight) == ~testing /\ ~force_no_weight

FetchFailedIgnored(success) == FALSE

\* Line 152: if(!success)
FetchFailed(success) == ~success

\* FATAL(...) of line 153 ends the process: nothing after it runs
FATAL == TRUE

\* Tensor::MoveToCPU / Tensor::MoveToGPU: the residency they leave the tensor in
MoveToCPU(res) == "cpu"

MoveToGPU(res) == "gpu"

\* What an out-of-bounds read of perm_ may do: crash, or yield some value
OobReads ==
  {[crash |-> TRUE, value |-> 0]} \cup
  {[crash |-> FALSE, value |-> v] : v \in 0..MaxGarbage}

\* The reads of perm_ in one call are out of bounds exactly when the first is
OobChoices(perm, cursor, testing) ==
  IF ~testing /\ cursor >= Len(perm) THEN OobReads
  ELSE {[crash |-> FALSE, value |-> 0]}

\* One iteration of the loop of lines 116-178, for batch slot `sample`
FetchStep(m, sample, testing, fail_at, oob) ==
  LET oob_read == ~testing /\ m.current_element_ >= Len(m.perm_)
      advanced_testing == m.current_element_testing_ + 1
      force_no_weight ==
        testing /\ TestingExhausted(advanced_testing, elements_testing_)
      selected_element ==
        IF testing
          THEN (IF force_no_weight THEN 0 ELSE m.current_element_testing_)
          ELSE (IF oob_read THEN oob.value ELSE m.perm_[m.current_element_ + 1])
      advanced == m.current_element_ + 1
      wraps == ~testing /\ PermExhausted(advanced, Len(m.perm_))
      shuffled == IF wraps THEN RedoPermutation(m.perm_, m.generator_)
                  ELSE [perm_ |-> m.perm_, generator_ |-> m.generator_]
      success == sample # fail_at
      fetched == IF success
                   THEN FetchInto(m.weights, sample, testing, selected_element)
                   ELSE m.weights
      halts == FetchFailed(success) /\ FATAL
      samples == ~halts /\ PerformsLossSampling(testing, force_no_weight)
      sampled == IF samples
                   THEN SampleBlocks([weights |-> fetched,
                                      generator_ |-> shuffled.generator_,
                                      draws |-> <<>>],
                                     sample,
                                     BlockSeq(ErrorTensor.width, ErrorTensor.height), 1)
                   ELSE [weights |-> fetched, generator_ |-> shuffled.generator_,
                         draws |-> <<>>]
      moved == IF samples /\ build_opencl THEN MoveToGPU(m.resident) ELSE m.resident
      entry == [sample |-> sample, testing |-> testing,
                selected_element |-> selected_element,
                force_no_weight |-> force_no_weight,
                success |-> success, reshuffled |-> wraps,
                oob_read |-> oob_read,
                cursor |-> IF testing THEN m.current_element_testing_
                           ELSE m.current_element_,
                ordinal |-> IF testing THEN m.testing_seen ELSE Len(m.training_log),
                resident_at_fetch |-> m.resident,
                resident_at_write |-> moved,
                draws |-> sampled.draws]
  IN IF oob_read /\ oob.crash
       THEN [m EXCEPT !.halted = TRUE]
       ELSE [perm_ |-> shuffled.perm_,
             current_element_ |-> IF testing THEN m.current_element_
                                  ELSE (IF wraps THEN 0 ELSE advanced),
             current_element_testing_ |-> IF testing THEN advanced_testing
                                          ELSE m.current_element_testing_,
             generator_ |-> sampled.generator_,
             weights |-> IF ~halts /\ force_no_weight
                           THEN Clear(sampled.weights, sample)
                           ELSE sampled.weights,
             resident |-> moved,
             log |-> Append(m.log, entry),
             training_log |-> IF testing THEN m.training_log
                              ELSE Append(m.training_log, selected_element),
             testing_seen |-> IF testing THEN m.testing_seen + 1 ELSE m.testing_seen,
             shuffles |-> IF wraps THEN m.shuffles + 1 ELSE m.shuffles,
             halted |-> halts]

RECURSIVE FeedForwardLoop(_, _, _, _, _)
FeedForwardLoop(m, sample, testing, fail_at, oob) ==
  IF sample >= batch_size_ \/ m.halted
    THEN m
    ELSE FeedForwardLoop(FetchStep(m, sample, testing, fail_at, oob),
                         sample + 1, testing, fail_at, oob)

\* DatasetInputLayer::FeedForward.  fail_at: the slot whose Dataset fetch
\* returns false (batch_size_: none does)
FeedForward ==
  /\ stage = "Active"
  /\ ~testing_ => Len(training_log) + batch_size_ <= MaxTrainingLog
  /\ testing_ => testing_seen + batch_size_ <= MaxTestingLog
  /\ \E fail_at \in 0..batch_size_ :
     \E oob \in OobChoices(perm_, current_element_, testing_) :
     \E twin_oob \in OobChoices(twin.perm_, twin.current_element_, twin.testing_) :
     \E m \in {FeedForwardLoop(
                  [perm_ |-> perm_, current_element_ |-> current_element_,
                   current_element_testing_ |-> current_element_testing_,
                   generator_ |-> generator_, weights |-> weights,
                   resident |-> IF build_opencl THEN MoveToCPU(resident) ELSE resident,
                   log |-> <<>>, training_log |-> training_log,
                   testing_seen |-> testing_seen, shuffles |-> shuffles,
                   halted |-> FALSE],
                  0, testing_, fail_at, oob)} :
     \E t \in {FeedForwardLoop(
                  [perm_ |-> twin.perm_, current_element_ |-> twin.current_element_,
                   current_element_testing_ |-> twin.current_element_testing_,
                   generator_ |-> twin.generator_, weights |-> <<>>,
                   resident |-> "cpu",
                   log |-> <<>>, training_log |-> twin.training_log,
                   testing_seen |-> 0, shuffles |-> 0,
                   halted |-> twin.halted],
                  0, twin.testing_, fail_at, twin_oob)} :
          /\ perm_' = m.perm_
          /\ current_element_' = m.current_element_
          /\ current_element_testing_' = m.current_element_testing_
          /\ generator_' = m.generator_
          /\ weights' = m.weights
          /\ resident' = m.resident
          /\ fetch_log' = m.log
          /\ training_log' = m.training_log
          /\ testing_seen' = m.testing_seen
          /\ shuffles' = m.shuffles
          /\ stage' = IF m.halted THEN "Halted"
                       ELSE IF \E i \in 1..Len(m.log) : m.log[i].oob_read
                              THEN "Undefined"
                              ELSE stage
          /\ last_call' = [op |-> "FeedForward", arg |-> fail_at,
                           ret |-> IF m.halted THEN "halt" ELSE "void",
                           oob |-> {}, before |-> <<>>]
          /\ twin' = [perm_ |-> t.perm_, generator_ |-> t.generator_,
                      current_element_ |-> t.current_element_,
                      current_element_testing_ |-> t.current_element_testing_,
                      testing_ |-> twin.testing_,
                      training_log |-> t.training_log, halted |-> t.halted]
  /\ UNCHANGED <<configVars, bindVars, outputs, testing_>>

\* --------------------------------------------------------- SetTestingMode
TestingCursorAlwaysReset(cursor, was, testing) == IF testing THEN 0 ELSE cursor

TestingCursorKept(cursor, was, testing) == cursor

\* Lines 203-212: the testing cursor after SetTestingMode(testing)
TestingCursorAfter(cursor, was, testing) ==
  IF testing # was THEN (IF testing THEN 0 ELSE cursor) ELSE cursor

SetTestingModeResetsBoth(testing) ==
  /\ stage = "Active"
  /\ current_element_testing_' =
       TestingCursorAfter(current_element_testing_, testing_, testing)
  /\ current_element_' = IF testing # testing_ THEN 0 ELSE current_element_
  /\ testing_' = testing
  /\ testing_seen' = IF testing /\ ~testing_ THEN 0 ELSE testing_seen
  /\ fetch_log' = <<>>
  /\ twin' = [twin EXCEPT
                !.current_element_testing_ =
                   TestingCursorAfter(@, twin.testing_, testing),
                !.testing_ = testing]
  /\ last_call' = [op |-> "SetTestingMode", arg |-> testing, ret |-> "void",
                   oob |-> {},
                   before |-> [testing_ |-> testing_,
                               current_element_testing_ |-> current_element_testing_]]
  /\ UNCHANGED <<configVars, bindVars, tensorVars, outputs, stage,
                 perm_, generator_, training_log, shuffles>>

\* DatasetInputLayer::SetTestingMode
SetTestingMode(testing) ==
  /\ stage = "Active"
  /\ current_element_testing_' =
       TestingCursorAfter(current_element_testing_, testing_, testing)
  /\ testing_' = testing
  /\ testing_seen' = IF testing /\ ~testing_ THEN 0 ELSE testing_seen
  /\ fetch_log' = <<>>
  /\ twin' = [twin EXCEPT
                !.current_element_testing_ =
                   TestingCursorAfter(@, twin.testing_, testing),
                !.testing_ = testing]
  /\ last_call' = [op |-> "SetTestingMode", arg |-> testing, ret |-> "void",
                   oob |-> {},
                   before |-> [testing_ |-> testing_,
                               current_element_testing_ |-> current_element_testing_]]
  /\ UNCHANGED <<configVars, bindVars, tensorVars, outputs, stage,
                 perm_, current_element_, generator_,
                 training_log, shuffles>>

\* ---------------------------------------------------------- CreateOutputs
TensorShapeTransposed(maps) ==
  [samples |-> batch_size_, width |-> dataset.height,
   height |-> dataset.width, maps |-> maps]

\* new CombinedTensor(batch_size_, dataset_.GetWidth(), dataset_.GetHeight(), maps)
TensorShape(maps) ==
  [samples |-> batch_size_, width |-> dataset.width,
   height |-> dataset.height, maps |-> maps]

\* DatasetInputLayer::CreateOutputs, called with n_inputs inputs
CreateOutputs(n_inputs) ==
  /\ stage = "Created"
  /\ IF n_inputs # 0
       THEN /\ UNCHANGED <<outputs, weights>>
            /\ stage' = "Inert"
            /\ last_call' = [op |-> "CreateOutputs", arg |-> n_inputs,
                             ret |-> "false", oob |-> {}, before |-> <<>>]
       ELSE /\ outputs' = outputs \o <<TensorShape(input_maps_), TensorShape(label_maps_),
                                       TensorShape(2), TensorShape(1)>>
            /\ weights' = [c \in (0..(batch_size_ - 1)) \X (0..(dataset.width - 1))
                                   \X (0..(dataset.height - 1)) |-> 0]
            /\ stage' = "OutputsDeclared"
            /\ last_call' = [op |-> "CreateOutputs", arg |-> n_inputs,
                             ret |-> "true", oob |-> {}, before |-> <<>>]
  /\ UNCHANGED <<configVars, cursorVars, bindVars, resident, historyVars, twin>>

\* ---------------------------------------------------------------- Connect
\* The outputs vectors Connect is called with: pointers into `outputs`
\* (1..4), NullPtr for nullptr
ConnectOutputs ==
  {SubSeq(<<1, 2, 3, 4>>, 1, k) : k \in 0..4}
    \cup {<<1, 2, 3, 4, 4>>}
    \cup {[<<1, 2, 3, 4>> EXCEPT ![i] = NullPtr] : i \in 1..4}

\* What reading past the end of the vector may yield
WildPtrs == {NullPtr, NullPtr + 1}

\* outputs[i] of lines 88-91 (0-based i): no bounds check
ElementAt(outs, i, wild) == IF i + 1 <= Len(outs) THEN outs[i + 1] ELSE wild

\* Lines 93-94: the null check
AnyNull(data_output, label_output, helper_output, localized_error_output) ==
  data_output = NullPtr \/ label_output = NullPtr \/ localized_error_output = NullPtr

\* DatasetInputLayer::Connect
Connect(n_inputs, outs) ==
  /\ stage = "OutputsDeclared"
  /\ \E crash \in IF Len(outs) < 4 THEN BOOLEAN ELSE {FALSE} :
     \E wild \in IF Len(outs) < 4 /\ ~crash THEN WildPtrs ELSE {NullPtr} :
       LET data_output == ElementAt(outs, 0, wild)
           label_output == ElementAt(outs, 1, wild)
           helper_output == ElementAt(outs, 2, wild)
           localized_error_output == ElementAt(outs, 3, wild)
           past_end == {i \in 0..3 : i >= Len(outs)}
           valid == /\ ~AnyNull(data_output, label_output, helper_output,
                                localized_error_output)
                    /\ n_inputs = 0 /\ Len(outs) = 4
       IN IF crash
            THEN /\ stage' = "Halted"
                 /\ last_call' = [op |-> "Connect", arg |-> <<n_inputs, outs>>,
                                  ret |-> "crash",
                                  oob |-> past_end, before |-> <<>>]
                 /\ UNCHANGED bindVars
            ELSE /\ stage' = IF valid THEN "Active" ELSE "Inert"
                 /\ last_call' = [op |-> "Connect", arg |-> <<n_inputs, outs>>,
                                  ret |-> IF valid THEN "true" ELSE "false",
                                  oob |-> past_end, before |-> <<>>]
                 /\ IF valid
                      THEN /\ data_output_' = data_output
                           /\ label_output_' = label_output
                           /\ helper_output_' = helper_output
                           /\ localized_error_output_' = localized_error_output
                      ELSE UNCHANGED bindVars
  /\ UNCHANGED <<configVars, cursorVars, tensorVars, historyVars, outputs, twin>>

\* ---------------------------------------------------------- specification
Next ==
  \/ \E n_inputs \in 0..1 : CreateOutputs(n_inputs)
  \/ \E n_inputs \in 0..1 : \E outs \in ConnectOutputs : Connect(n_inputs, outs)
  \/ FeedForward
  \/ \E testing \in BOOLEAN : SetTestingMode(testing)

\* A build without BUILD_OPENCL
Init == InitOf(Datasets, {FALSE}, {GenModulus \div 2, GenModulus})

Spec == Init /\ [][Next]_vars

\* Datasets whose loss-weight map has several blocks along x and y, the last
\* ones clipped, and every loss-sampling probability
BlockGeometries ==
  {<<block_size + 1, block_size + 1>>, <<block_size, 2 * block_size + 1>>}

BlockDatasets ==
  {[training |-> 2, testing |-> 1, width |-> g[1], height |-> g[2],
    input_maps |-> 3, label_maps |-> 1] : g \in BlockGeometries}

InitBlocks == InitOf(BlockDatasets, {FALSE}, LossSamplingPs)

SpecBlocks == InitBlocks /\ [][Next]_vars

\* The build with BUILD_OPENCL defined
InitOpenCL == InitOf(Datasets, {TRUE}, {GenModulus \div 2, GenModulus})

SpecOpenCL == InitOpenCL /\ [][Next]_vars

\* ------------------------------------------------------------- properties
\* The positions of batch slot `sample` of the loss-weight tensor
SlotCells(sample) == {c \in DOMAIN weights : c[1] = sample}

\* C1: once testing mode has been entered from training mode and
\* testing_count >= 1, the k-th testing fetch (k counted from 0) passes index k
\* as a real sample for every k < testing_count, and every later fetch is a
\* padding fetch with index 0.
C1_TestingTraversal ==
  elements_testing_ >= 1 =>
    \A i \in 1..Len(fetch_log) :
      LET e == fetch_log[i] IN
        e.testing =>
          IF e.ordinal < elements_testing_
            THEN e.selected_element = e.ordinal /\ ~e.force_no_weight
            ELSE e.selected_element = 0 /\ e.force_no_weight

\* C2 as stated: after every call SetTestingMode(true), whatever the mode was,
\* the testing cursor is 0.
C2_AlwaysReset ==
  (last_call.op = "SetTestingMode" /\ last_call.arg) =>
    current_element_testing_ = 0

\* C2 as amended: after SetTestingMode(true) called in training mode the
\* testing cursor is 0; called in testing mode, the cursor is what it was.
C2_ResetOnEntry ==
  (last_call.op = "SetTestingMode" /\ last_call.arg) =>
    current_element_testing_ =
      (IF last_call.before.testing_
         THEN last_call.before.current_element_testing_ ELSE 0)

\* C2 witness: testing mode is entered with a testing cursor that had advanced
C2_Witness ==
  /\ last_call.op = "SetTestingMode" /\ last_call.arg
  /\ ~last_call.before.testing_
  /\ last_call.before.current_element_testing_ > 0
  /\ current_element_testing_ = 0

\* C3: in every reachable state perm_ has length training_count and holds
\* each value of 0..training_count-1 exactly once.
C3_PermIsBijection == IsPermutation(perm_, elements_training_)

\* C3 witness: the permutation has been reshuffled twice and is not the identity
C3_Witness ==
  /\ shuffles >= 2
  /\ Len(perm_) >= 2
  /\ perm_ # Identity(Len(perm_))

\* C4: with training_count >= 1 the training cursor is the number of training
\* fetches since construction modulo training_count, RedoPermutation has run
\* once per completed pass, and the fetch that triggers it is the last of a pass.
C4_ReshuffleOncePerPass ==
  elements_training_ >= 1 =>
    /\ current_element_ = Len(training_log) % elements_training_
    /\ shuffles = Len(training_log) \div elements_training_
    /\ \A i \in 1..Len(fetch_log) :
         LET e == fetch_log[i] IN
           ~e.testing =>
             /\ e.cursor = e.ordinal % elements_training_
             /\ e.reshuffled <=> (e.ordinal + 1) % elements_training_ = 0

\* C4 witness: a pass of two or more fetches, with testing-mode calls
\* interleaved, has just ended with the reshuffle
C4_Witness ==
  /\ elements_training_ >= 2
  /\ Len(training_log) = elements_training_
  /\ current_element_ = 0
  /\ shuffles = 1
  /\ last_call.op = "FeedForward"
  /\ current_element_testing_ > 0

\* C5: two instances built from the same arguments and driven by the same
\* calls pass the same sequence of indices to the Dataset's training fetch.
C5_Deterministic == twin.training_log = training_log

\* C6: a Connect call whose outputs vector has a length other than 4, or whose
\* inputs vector is not empty, returns false and reads nothing past the end of
\* the outputs vector.
C6_ConnectValidatesArity ==
  (last_call.op = "Connect" /\
     (Len(last_call.arg[2]) # 4 \/ last_call.arg[1] # 0)) =>
    (last_call.ret = "false" /\ last_call.oob = {})

\* C7: when Connect returns true all four bound references are non-null, and
\* a call whose helper output (outputs[2]) is null returns false.
C7_ConnectValidatesNull ==
  last_call.op = "Connect" =>
    /\ last_call.ret = "true" =>
         /\ data_output_ # NullPtr
         /\ label_output_ # NullPtr
         /\ helper_output_ # NullPtr
         /\ localized_error_output_ # NullPtr
    /\ (Len(last_call.arg[2]) >= 3 /\ last_call.arg[2][3] = NullPtr) =>
         last_call.ret = "false"

\* The program's own state (the history variables left aside)
programVars == <<configVars, cursorVars, bindVars, tensorVars, outputs, stage>>

\* C8: SetTestingMode(true) in training mode sets testing_ and zeroes the
\* testing cursor; SetTestingMode(false) clears testing_ and keeps the testing
\* cursor; a call whose argument is the current mode changes no state.
C8_SetTestingMode ==
  [][last_call'.op = "SetTestingMode" =>
       /\ testing_' = last_call'.arg
       /\ (last_call'.arg /\ ~testing_) => current_element_testing_' = 0
       /\ ~last_call'.arg => current_element_testing_' = current_element_testing_
       /\ last_call'.arg = testing_ => UNCHANGED programVars]_vars

\* C8 witness: SetTestingMode(true) was called in testing mode with the
\* testing cursor advanced
C8_Witness ==
  /\ last_call.op = "SetTestingMode" /\ last_call.arg
  /\ last_call.before.testing_
  /\ current_element_testing_ > 0

\* C9: SetTestingMode leaves perm_, current_element_ and the generator's
\* state unchanged.
C9_SetTestingModeFrame ==
  [][last_call'.op = "SetTestingMode" =>
       UNCHANGED <<perm_, current_element_, generator_>>]_vars

\* C9 witness: the mode was changed in the middle of a pass
C9_Witness ==
  /\ last_call.op = "SetTestingMode"
  /\ last_call.arg # last_call.before.testing_
  /\ current_element_ > 0

\* C10: after a FeedForward that returns normally every slot filled as padding
\* has an all-zero loss-weight map, and no training-mode slot is padding.
C10_PaddingIsZero ==
  (last_call.op = "FeedForward" /\ last_call.ret = "void") =>
    \A i \in 1..Len(fetch_log) :
      LET e == fetch_log[i] IN
        /\ e.force_no_weight => \A c \in SlotCells(e.sample) : weights[c] = 0
        /\ ~e.testing => ~e.force_no_weight

\* C10 witness: the testing set ran out in the middle of a batch
C10_Witness ==
  /\ last_call.op = "FeedForward" /\ last_call.ret = "void"
  /\ Len(fetch_log) >= 2
  /\ ~fetch_log[1].force_no_weight
  /\ fetch_log[2].force_no_weight
  /\ Cardinality(SlotCells(1)) > 1

\* What the Dataset's fetch wrote at position c for log entry e
Fetched(e, c) == DatasetWeight(e.testing, e.selected_element, c[2], c[3])

\* C11: in testing mode every slot that is not padding holds, after
\* FeedForward, exactly what the Dataset's testing fetch wrote; loss
\* down-sampling made no draw for it and zeroed no block of it.
C11_TestingKeepsWeights ==
  (last_call.op = "FeedForward" /\ last_call.ret = "void") =>
    \A i \in 1..Len(fetch_log) :
      LET e == fetch_log[i] IN
        (e.testing /\ ~e.force_no_weight) =>
          /\ e.draws = <<>>
          /\ \A c \in SlotCells(e.sample) : weights[c] = Fetched(e, c)

\* C11 witness: a real testing sample was fetched into a map of two blocks
\* with a keep-probability below 1
C11_Witness ==
  /\ last_call.op = "FeedForward" /\ last_call.ret = "void"
  /\ testing_
  /\ loss_sampling_p_ < GenModulus
  /\ Len(fetch_log) >= 1
  /\ ~fetch_log[1].force_no_weight
  /\ Cardinality(SlotCells(0)) > block_size

\* C12: with loss_sampling_p = 1.0 every slot holds, after a training-mode
\* FeedForward, exactly what the Dataset's training fetch wrote.
C12_KeepAllAtOne ==
  (last_call.op = "FeedForward" /\ last_call.ret = "void"
     /\ loss_sampling_p_ = GenModulus) =>
    \A i \in 1..Len(fetch_log) :
      LET e == fetch_log[i] IN
        ~e.testing => \A c \in SlotCells(e.sample) : weights[c] = Fetched(e, c)

\* C12 witness: draws were made for two blocks of a slot with p = 1.0 and the
\* slot holds a non-zero weight
C12_Witness ==
  /\ last_call.op = "FeedForward" /\ last_call.ret = "void"
  /\ loss_sampling_p_ = GenModulus
  /\ ~testing_
  /\ Len(fetch_log) >= 1
  /\ Len(fetch_log[1].draws) = 2
  /\ \E c \in SlotCells(0) : weights[c] # 0

\* C13: CreateOutputs with a non-empty inputs vector returns false and leaves
\* the outputs vector and the tensors as they were; with an empty inputs vector
\* it returns true and appends exactly the data, label, helper and loss-weight
\* tensors, each of shape (batch_size, width, height, c) with c = input_maps,
\* label_maps, 2 and 1.
C13_CreateOutputs ==
  [][last_call'.op = "CreateOutputs" =>
       IF last_call'.arg # 0
         THEN /\ last_call'.ret = "false"
              /\ UNCHANGED <<outputs, weights>>
         ELSE /\ last_call'.ret = "true"
              /\ Len(outputs') = Len(outputs) + 4
              /\ SubSeq(outputs', 1, Len(outputs)) = outputs
              /\ \A k \in 1..4 :
                   outputs'[Len(outputs) + k] =
                     [samples |-> batch_size_, width |-> dataset.width,
                      height |-> dataset.height,
                      maps |-> <<dataset.input_maps, dataset.label_maps, 2, 1>>[k]]]_vars

\* C13 witness: CreateOutputs succeeded for a Dataset whose width and height differ
C13_Witness ==
  /\ last_call.op = "CreateOutputs" /\ last_call.ret = "true"
  /\ Len(outputs) = 4
  /\ dataset.width # dataset.height

\* C13 witness of the failing case: CreateOutputs was given an input
C13_WitnessRejected ==
  /\ last_call.op = "CreateOutputs" /\ last_call.ret = "false"
  /\ outputs = <<>>

\* C14: when a Dataset fetch returns false for slot s, FeedForward stops
\* there: the failed fetch is the last one issued (no retry, no later slot),
\* no draw is made for slot s, and the loss-weight maps of slot s and of every
\* later slot are left as they were.
C14_FetchFailureHalts ==
  [][last_call'.op = "FeedForward" =>
       \A i \in 1..Len(fetch_log') :
         LET e == fetch_log'[i] IN
           /\ e.sample = i - 1
           /\ ~e.success =>
                /\ i = Len(fetch_log')
                /\ e.draws = <<>>
                /\ stage' = "Halted"
                /\ \A c \in DOMAIN weights :
                     c[1] >= e.sample => weights'[c] = weights[c]]_vars

\* C14 witness: the fetch for slot 0 of a batch of two failed in training
\* mode, after an earlier call had filled both slots
C14_Witness ==
  /\ last_call.op = "FeedForward" /\ last_call.ret = "halt"
  /\ ~testing_
  /\ batch_size_ = 2
  /\ Len(fetch_log) = 1
  /\ ~fetch_log[1].success
  /\ Len(training_log) > batch_size_

\* C15: with training_count >= 1 and any batch size, the training indices
\* fetched since construction, cut into consecutive groups of training_count,
\* hold every value of 0..training_count-1 exactly once per group, and the
\* fetches of the pass in progress are positions 0, 1, ... of the current
\* permutation (so the fetch after a reshuffle reads position 0 of the new one).
C15_PassesArePermutations ==
  elements_training_ >= 1 =>
    LET n == elements_training_ IN
      /\ \A g \in 0..((Len(training_log) \div n) - 1) :
           {training_log[g * n + j] : j \in 1..n} = 0..(n - 1)
      /\ current_element_ <= Len(training_log)
      /\ \A j \in 1..current_element_ :
           training_log[Len(training_log) - current_element_ + j] = perm_[j]

\* C15 witness: three training samples in batches of two; the second call
\* ended the pass with its first fetch, reshuffled, and its second fetch read
\* position 0 of the new permutation
C15_Witness ==
  /\ elements_training_ = 3
  /\ batch_size_ = 2
  /\ last_call.op = "FeedForward" /\ last_call.ret = "void"
  /\ Len(training_log) = 4
  /\ fetch_log[1].reshuffled
  /\ ~fetch_log[2].reshuffled
  /\ current_element_ = 1
  /\ training_log[4] = perm_[1]

\* C16: the testing cursor is advanced only by a fetch that is not padding,
\* so current_element_testing_ <= testing_count in every reachable state.
C16_TestingCursorBounded == current_element_testing_ <= elements_testing_

\* C19: every read perm_[current_element_] of a training-mode FeedForward is
\* at a position below perm_.size(), and the index handed to the Dataset's
\* training fetch is in 0..training_count-1, for every Dataset, one with no
\* training samples included.
C19_PermReadInBounds ==
  \A i \in 1..Len(fetch_log) :
    LET e == fetch_log[i] IN
      ~e.testing =>
        /\ ~e.oob_read
        /\ e.cursor < Len(perm_)
        /\ e.selected_element \in 0..(elements_training_ - 1)

\* C20: a testing-mode FeedForward leaves perm_, current_element_ and the
\* generator's state unchanged: it makes no draw and no reshuffle and passes
\* nothing to the training fetch.
C20_TestingFeedForwardFrame ==
  [][(last_call'.op = "FeedForward" /\ testing_) =>
       /\ UNCHANGED <<perm_, current_element_, generator_>>
       /\ UNCHANGED <<training_log, shuffles>>
       /\ \A i \in 1..Len(fetch_log') :
            fetch_log'[i].draws = <<>> /\ ~fetch_log'[i].reshuffled]_vars

\* C20 witness: a testing-mode call was made in the middle of a training pass
C20_Witness ==
  /\ last_call.op = "FeedForward" /\ last_call.ret = "void"
  /\ testing_
  /\ Len(fetch_log) >= 1
  /\ current_element_ > 0
  /\ loss_sampling_p_ < GenModulus

\* ceil(extent / block_size)
BlocksAcross(extent) == (extent + block_size - 1) \div block_size

\* The number, in drawing order, of the block that holds position (x, y)
BlockOf(x, y, width) ==
  (y \div block_size) * BlocksAcross(width) + (x \div block_size) + 1

\* C17: in training mode the blocks of 12x12 positions anchored at multiples
\* of 12 and clipped at the map's width and height partition the map; one draw
\* is made per block, ceil(width/12) * ceil(height/12) consecutive draws per
\* slot; a position of a block whose draw is greater than loss_sampling_p is 0
\* and any other position is as fetched, in every slot.
C17_BlockSampling ==
  (last_call.op = "FeedForward" /\ last_call.ret = "void" /\ ~testing_) =>
    LET width == ErrorTensor.width
        height == ErrorTensor.height
        blocks == BlockSeq(width, height)
    IN /\ \A x \in 0..(width - 1), y \in 0..(height - 1) :
            {k \in 1..Len(blocks) :
               <<x, y>> \in BlockCells(blocks[k][1], blocks[k][2], width, height)}
              = {BlockOf(x, y, width)}
       /\ \A i \in 1..Len(fetch_log) :
            LET e == fetch_log[i] IN
              /\ Len(e.draws) = BlocksAcross(width) * BlocksAcross(height)
              /\ \A k \in 1..(Len(e.draws) - 1) : e.draws[k + 1] = GenNext(e.draws[k])
              /\ \A c \in SlotCells(e.sample) :
                   weights[c] =
                     (IF e.draws[BlockOf(c[2], c[3], width)] > loss_sampling_p_
                        THEN 0 ELSE Fetched(e, c))

\* C17 witness: a map of 2x2 blocks, clipped both ways, of which one block
\* was zeroed and another kept
C17_Witness ==
  /\ last_call.op = "FeedForward" /\ last_call.ret = "void" /\ ~testing_
  /\ dataset.width = block_size + 1 /\ dataset.height = block_size + 1
  /\ Len(fetch_log) = 2
  /\ Len(fetch_log[2].draws) = 4
  /\ \E k \in 1..4 : fetch_log[2].draws[k] > loss_sampling_p_
  /\ \E k \in 1..4 : fetch_log[2].draws[k] <= loss_sampling_p_
  /\ \E c \in SlotCells(1) : weights[c] # 0

\* C18: in a build with BUILD_OPENCL the loss-weight tensor is host-resident
\* at every host-side access FeedForward makes to it: at each Dataset fetch
\* into it, at each block-zeroing write through data_ptr and at each Clear,
\* in every batch slot.
C18_HostResidentAtAccess ==
  build_opencl =>
    \A i \in 1..Len(fetch_log) :
      LET e == fetch_log[i] IN
        /\ e.resident_at_fetch = "cpu"
        /\ (\E k \in 1..Len(e.draws) : DropsBlock(e.draws[k], loss_sampling_p_))
             => e.resident_at_write = "cpu"
        /\ e.force_no_weight => e.resident_at_write = "cpu"

====
